---- MODULE Spec2Model ----
(***************************************************************************)
(* Model of the form-intake worker of src/src/index.ts: one invocation of  *)
(* the exported fetch(request, env) handler, from the arrival of the       *)
(* request to the response (or the exception) that leaves the handler.     *)
(*                                                                         *)
(* Strings whose content matters (field values, HTML) are sequences of     *)
(* one-character strings; fixed pieces of the templates are single tokens. *)
(* A JSON.stringify(obj) response body is modelled by the object that is   *)
(* serialised; JSON.stringify of an exception keeps only its enumerable    *)
(* own properties.                                                         *)
(***************************************************************************)
EXTENDS Integers, Sequences, FiniteSets, TLC

VARIABLES request, env, pc, bodyRead, validated, result, fileBase64,
          sent, providerResult, logged, response, fault

vars == <<request, env, pc, bodyRead, validated, result, fileBase64,
          sent, providerResult, logged, response, fault>>

(***************************************************************************)
(* Values                                                                  *)
(***************************************************************************)

\* A JavaScript value of a body field: undefined, or a string.
Undefined == [t |-> "undefined", v |-> <<>>]

Str(s) == [t |-> "string", v |-> s]

IsString(x) == x.t = "string"

Whitespace == {" "}

RECURSIVE TrimStart(_)
TrimStart(s) ==
    IF s # <<>> /\ Head(s) \in Whitespace THEN TrimStart(Tail(s)) ELSE s

RECURSIVE TrimEnd(_)
TrimEnd(s) ==
    IF s # <<>> /\ s[Len(s)] \in Whitespace
    THEN TrimEnd(SubSeq(s, 1, Len(s) - 1))
    ELSE s

\* String.prototype.trim, as applied by z.string().trim()
Trim(s) == TrimStart(TrimEnd(s))

\* String.prototype.includes on character sequences
Contains(hay, needle) ==
    \E i \in 0..(Len(hay) - Len(needle)) :
        SubSeq(hay, i + 1, i + Len(needle)) = needle

\* `${value}` in a template literal
Interpolate(x) ==
    IF IsString(x) THEN x.v ELSE <<"u", "n", "d", "e", "f", "i", "n", "e", "d">>

(***************************************************************************)
(* Bounds of the explored inputs                                           *)
(***************************************************************************)

\* Longest explicitly enumerated tail of an uploaded file, in bytes.
MaxHead == 2

ByteVals == {0, 77, 255}

(***************************************************************************)
(* Rider schema (RiderFormSchema)                                          *)
(***************************************************************************)

RiderFields == <<"email", "phone", "gender", "DOB", "fname", "lname">>

\* One zod issue: the path of the offending key and the message.
Issue(field, message) == [path |-> <<field>>, message |-> message]

\* z.string().trim().optional()
ParseEmail(x) ==
    IF x = Undefined THEN [ok |-> TRUE, value |-> Undefined, issues |-> <<>>]
    ELSE IF ~IsString(x)
    THEN [ok |-> FALSE, value |-> x, issues |-> <<Issue("email", "Expected string")>>]
    ELSE [ok |-> TRUE, value |-> Str(Trim(x.v)), issues |-> <<>>]

\* z.string().trim()
ParsePhone(x) ==
    IF ~IsString(x)
    THEN [ok |-> FALSE, value |-> x, issues |-> <<Issue("phone", "Required")>>]
    ELSE [ok |-> TRUE, value |-> Str(Trim(x.v)), issues |-> <<>>]

\* z.string().trim().min(2, message): the trim check runs before the length check
ParseTrimMin2(field, message, x) ==
    IF ~IsString(x)
    THEN [ok |-> FALSE, value |-> x, issues |-> <<Issue(field, "Required")>>]
    ELSE IF Len(Trim(x.v)) < 2
    THEN [ok |-> FALSE, value |-> x, issues |-> <<Issue(field, message)>>]
    ELSE [ok |-> TRUE, value |-> Str(Trim(x.v)), issues |-> <<>>]

\* z.string().min(2, message): DOB is not trimmed
ParseMin2(field, message, x) ==
    IF ~IsString(x)
    THEN [ok |-> FALSE, value |-> x, issues |-> <<Issue(field, "Required")>>]
    ELSE IF Len(x.v) < 2
    THEN [ok |-> FALSE, value |-> x, issues |-> <<Issue(field, message)>>]
    ELSE [ok |-> TRUE, value |-> x, issues |-> <<>>]

\* The per-key results of RiderFormSchema on a JSON object, in schema order.
RiderFieldResults(data) ==
    [email  |-> ParseEmail(data.email),
     phone  |-> ParsePhone(data.phone),
     gender |-> ParseTrimMin2("gender", "Please enter your gender", data.gender),
     DOB    |-> ParseMin2("DOB", "Please enter your Date of birth", data.DOB),
     fname  |-> ParseTrimMin2("fname", "Please enter first name", data.fname),
     lname  |-> ParseTrimMin2("lname", "Please enter Last name", data.lname)]

RECURSIVE ConcatIssues(_, _, _)
ConcatIssues(r, fields, i) ==
    IF i > Len(fields) THEN <<>>
    ELSE r[fields[i]].issues \o ConcatIssues(r, fields, i + 1)

\* RiderFormSchema.safeParse-style outcome: the parsed object, or the issues
\* that RiderFormSchema.parse throws as a ZodError.  json is the value that
\* request.json() produced: null, or an object.
RiderSchemaParse(json) ==
    IF json.t = "null"
    THEN [success |-> FALSE, data |-> json.v,
          issues |-> <<[path |-> <<>>, message |-> "Expected object, received null"]>>]
    ELSE LET r == RiderFieldResults(json.v)
             issues == ConcatIssues(r, RiderFields, 1)
         IN  [success |-> issues = <<>>,
              data |-> [email |-> r.email.value, phone |-> r.phone.value,
                        gender |-> r.gender.value, DOB |-> r.DOB.value,
                        fname |-> r.fname.value, lname |-> r.lname.value],
              issues |-> issues]

(***************************************************************************)
(* HTML templates                                                          *)
(***************************************************************************)

\* createRiderTemplate with the date-of-birth line left out
createRiderTemplateNoDOB(riderData) ==
    <<"<!DOCTYPE html><html><head><style>...</style></head><body><div class=container>",
      "<div class=header><h1>New Rider Application Received</h1></div>",
      "<div class=content>",
      "<p><strong>First Name:</strong>", " ">> \o Interpolate(riderData.fname) \o
    <<"</p>", "<p><strong>Last name:</strong>", " ">> \o Interpolate(riderData.lname) \o
    <<"</p>", "<p><strong>Phone number:</strong>", " ">> \o Interpolate(riderData.phone) \o
    <<"</p>", "<p><strong>Email:</strong>", " ">> \o Interpolate(riderData.email) \o
    <<"</p>", "<p><strong>Gender:</strong>", " ">> \o Interpolate(riderData.gender) \o
    <<"</p>", "</div>",
      "<div class=footer><p>This email was sent from your virgasapp riders form.</p></div>",
      "</div></body></html>">>

\* createRiderTemplate: the fixed layout with the six values interpolated
createRiderTemplate(riderData) ==
    <<"<!DOCTYPE html><html><head><style>...</style></head><body><div class=container>",
      "<div class=header><h1>New Rider Application Received</h1></div>",
      "<div class=content>",
      "<p><strong>First Name:</strong>", " ">> \o Interpolate(riderData.fname) \o
    <<"</p>", "<p><strong>Last name:</strong>", " ">> \o Interpolate(riderData.lname) \o
    <<"</p>", "<p><strong>Phone number:</strong>", " ">> \o Interpolate(riderData.phone) \o
    <<"</p>", "<p><strong>Email:</strong>", " ">> \o Interpolate(riderData.email) \o
    <<"</p>", "<p><strong>Gender:</strong>", " ">> \o Interpolate(riderData.gender) \o
    <<"</p>", "<p><strong>Date of birth:</strong>", " ">> \o Interpolate(riderData.DOB) \o
    <<"</p>", "</div>",
      "<div class=footer><p>This email was sent from your virgasapp riders form.</p></div>",
      "</div></body></html>">>

\* createEmailTemplate: the job-application layout
createEmailTemplate(data) ==
    <<"<!DOCTYPE html><html><head><style>...</style></head><body><div class=container>",
      "<div class=header><h1>New Application Received</h1></div>",
      "<div class=content>",
      "<p><strong>Role:</strong>", " ">> \o Interpolate(data.role) \o
    <<"</p>", "<p><strong>Motivation:</strong>", " ">> \o Interpolate(data.motivation) \o
    <<"</p>", "<p><strong>Projects:</strong>", " ">> \o Interpolate(data.projects) \o
    <<"</p>", "<p><strong>Message:</strong></p>", "<p>">> \o Interpolate(data.message) \o
    <<"</p>", "</div>",
      "<div class=footer><p>This email was sent from your virgasapp recruitment form.</p></div>",
      "</div></body></html>">>

(***************************************************************************)
(* Uploaded files                                                          *)
(*                                                                         *)
(* A file of about 2 MiB cannot be enumerated byte by byte, so the content *)
(* of a file is kept run-length encoded: zeroBlocks groups of three 0x00   *)
(* bytes followed by the bytes of head.                                    *)
(***************************************************************************)

\* 2 * 1024 * 1024 in the first refinement of formSchema.cv
MAX_CV_SIZE == 2 * 1024 * 1024

PDF == "application/pdf"

\* Number of three-byte groups in the bulk of a file of about MAX_CV_SIZE bytes
BulkBlocks == MAX_CV_SIZE \div 3

\* The form has no cv entry
NoFile == [t |-> "undefined", name |-> "", type |-> "", zeroBlocks |-> 0, head |-> <<>>]

File(name, type, zeroBlocks, head) ==
    [t |-> "file", name |-> name, type |-> type, zeroBlocks |-> zeroBlocks, head |-> head]

\* File.size
FileSize(f) == 3 * f.zeroBlocks + Len(f.head)

\* cv.arrayBuffer(): the bytes of the file
ArrayBuffer(f) == [zeroBlocks |-> f.zeroBlocks, head |-> f.head]

\* The padding character '=' of base64; the other characters are 0..63
B64Pad == 64

RECURSIVE Base64Encode(_)
\* Base64Encode with the left shift of the last two bits of a final single
\* byte forgotten
Base64EncodeNoShift(bytes) ==
    IF Len(bytes) = 0 THEN <<>>
    ELSE IF Len(bytes) = 1
    THEN <<bytes[1] \div 4, bytes[1] % 4, B64Pad, B64Pad>>
    ELSE IF Len(bytes) = 2
    THEN <<bytes[1] \div 4, (bytes[1] % 4) * 16 + bytes[2] \div 16,
           (bytes[2] % 16) * 4, B64Pad>>
    ELSE <<bytes[1] \div 4, (bytes[1] % 4) * 16 + bytes[2] \div 16,
           (bytes[2] % 16) * 4 + bytes[3] \div 64, bytes[3] % 64>>
         \o Base64Encode(SubSeq(bytes, 4, Len(bytes)))

Base64Encode(bytes) ==
    IF Len(bytes) = 0 THEN <<>>
    ELSE IF Len(bytes) = 1
    THEN <<bytes[1] \div 4, (bytes[1] % 4) * 16, B64Pad, B64Pad>>
    ELSE IF Len(bytes) = 2
    THEN <<bytes[1] \div 4, (bytes[1] % 4) * 16 + bytes[2] \div 16,
           (bytes[2] % 16) * 4, B64Pad>>
    ELSE <<bytes[1] \div 4, (bytes[1] % 4) * 16 + bytes[2] \div 16,
           (bytes[2] % 16) * 4 + bytes[3] \div 64, bytes[3] % 64>>
         \o Base64Encode(SubSeq(bytes, 4, Len(bytes)))

\* Buffer.from(fileBuffer).toString("base64"): every group of three 0x00 bytes
\* becomes one group "AAAA" (four characters of value 0), then head is encoded.
ToBase64(buffer) ==
    [zeroQuads |-> buffer.zeroBlocks, tail |-> Base64Encode(buffer.head)]

(***************************************************************************)
(* Job-application schema (formSchema)                                     *)
(***************************************************************************)

TextFields == {"role", "motivation", "projects", "message"}

\* zfd.text(z.string().min(1, message)): zfd.text turns "" into undefined
\* before the string schema sees it
TextMessages(x, message) ==
    LET pre == IF IsString(x) /\ x.v = <<>> THEN Undefined ELSE x
    IN  IF ~IsString(pre) THEN <<"Required">>
        ELSE IF Len(pre.v) < 1 THEN <<message>>
        ELSE <<>>

\* zfd.file() with the two refinements: zfd.file turns an empty File into
\* undefined; the instance check is fatal, the refinements are not
CvMessages(cv) ==
    LET pre == IF cv.t = "file" /\ FileSize(cv) = 0 THEN NoFile ELSE cv
    IN  IF pre.t # "file" THEN <<"Input not instance of File">>
        ELSE (IF FileSize(pre) <= MAX_CV_SIZE THEN <<>>
              ELSE <<"File size must be less than 2MB">>)
             \o
             (IF pre.type = PDF THEN <<>>
              ELSE <<"Only PDF files are allowed">>)

JobMessages(form) ==
    [role       |-> TextMessages(form.role, "Role is required"),
     motivation |-> TextMessages(form.motivation, "Motivation is required"),
     projects   |-> TextMessages(form.projects,
                       "Please list some projects you've worked on before"),
     message    |-> TextMessages(form.message,
                       "Please provide reasons why you are a good fit for this role"),
     cv         |-> CvMessages(form.cv)]

\* formSchema.safeParse(formData) followed, on failure, by error.flatten()
FormSchemaSafeParse(form) ==
    LET m == JobMessages(form)
        failing == {f \in DOMAIN m : m[f] # <<>>}
    IN  [success |-> failing = {},
         data |-> form,
         errors |-> [formErrors |-> <<>>,
                     fieldErrors |-> [f \in failing |-> m[f]]]]

(***************************************************************************)
(* Exceptions, provider outcomes and JSON.stringify                        *)
(***************************************************************************)

\* An Error object: name and message are not enumerable, so JSON.stringify
\* does not see them; enumerable lists the enumerable own properties.
PlainError(name, message) ==
    [name |-> name, message |-> message, enumerable |-> <<>>]

\* The ZodError thrown by schema.parse: issues and name are enumerable own
\* properties of the error object.
ZodError(issues) ==
    [name |-> "ZodError", message |-> "issues",
     enumerable |-> << <<"issues", issues>>, <<"name", "ZodError">> >>]

\* An error object reported by the provider: a plain object, all enumerable.
ProviderError(name, message) ==
    [name |-> name, message |-> message,
     enumerable |-> << <<"name", name>>, <<"message", message>> >>]

\* JSON.stringify(x) of an error or object: its enumerable own properties
JSONStringify(x) == x.enumerable

NoError == [name |-> "null", message |-> "", enumerable |-> <<>>]

ProviderErrors ==
    {ProviderError("validation_error", "Invalid from field"),
     ProviderError("rate_limit_exceeded", "Too many requests")}

SendExceptions ==
    {PlainError("Error", "socket hang up"), PlainError("TypeError", "fetch failed")}

\* What resend.emails.send can do: resolve with error null, resolve with a
\* provider error, or throw.
ProviderOutcomes ==
    {[kind |-> "ok", error |-> NoError]}
    \cup {[kind |-> "error", error |-> e] : e \in ProviderErrors}
    \cup {[kind |-> "throw", error |-> e] : e \in SendExceptions}

(***************************************************************************)
(* Requests and environments                                               *)
(***************************************************************************)

Methods == {"OPTIONS", "GET", "DELETE", "POST"}

Paths == {"/riders", "/"}

RiderObjects ==
    [email  : {Undefined, Str(<<"e", "@">>)},
     phone  : {Undefined, Str(<<>>), Str(<<"0", "7">>), Str(<<"0", "7", " ">>)},
     gender : {Undefined, Str(<<"f">>), Str(<<"f", "e">>), Str(<<" ", "f">>)},
     DOB    : {Undefined, Str(<<"1">>), Str(<<"1", "9">>), Str(<<"1", " ">>)},
     fname  : {Undefined, Str(<<"J">>), Str(<<"J", "o">>), Str(<<"J", "o", " ">>)},
     lname  : {Undefined, Str(<<"D">>), Str(<<"D", "o">>), Str(<<" ", "D", "o">>)}]

JsonValues ==
    {[t |-> "null", v |-> <<>>]} \cup {[t |-> "object", v |-> o] : o \in RiderObjects}

RECURSIVE SeqsUpTo(_, _)
SeqsUpTo(S, n) ==
    IF n = 0 THEN {<<>>}
    ELSE LET shorter == SeqsUpTo(S, n - 1)
         IN  shorter \cup {Append(q, b) : q \in shorter, b \in S}

Files ==
    {File("cv.bin", type, blocks, head) :
        type \in {PDF, "image/png"},
        blocks \in {0, BulkBlocks, BulkBlocks + 1},
        head \in SeqsUpTo(ByteVals, MaxHead)}

TextValues == {Undefined, Str(<<>>), Str(<<"x">>)}

Forms ==
    [role : TextValues, motivation : TextValues, projects : TextValues,
     message : TextValues, cv : {NoFile} \cup Files]

\* The request body: empty, text that is neither JSON nor multipart, JSON, or
\* multipart form data.
Bodies ==
    {[kind |-> "none"], [kind |-> "text"]}
    \cup {[kind |-> "json", json |-> j] : j \in JsonValues}
    \cup {[kind |-> "form", form |-> f] : f \in Forms}

Requests == [method : Methods, pathname : Paths, body : Bodies]

\* env.RESEND_API_KEY when the secret is not configured
NoKey == ""

Envs ==
    [RESEND_API_KEY : {"re_123", NoKey},
     RESEND_EMAIL : {"<hiring@virgas>"},
     VIRGAS_EMAIL : {"jobs@virgas"}]

(***************************************************************************)
(* Responses                                                               *)
(***************************************************************************)

corsHeaders ==
    ("Access-Control-Allow-Origin" :> "*")
    @@ ("Access-Control-Allow-Methods" :> "GET, POST, PUT, DELETE, OPTIONS")
    @@ ("Access-Control-Allow-Headers" :> "Content-Type, Authorization")
    @@ ("Access-Control-Max-Age" :> "86400")

\* { "Content-Type": "application/json", ...corsHeaders }
JsonHeaders == ("Content-Type" :> "application/json") @@ corsHeaders

\* new Response(JSON.stringify(obj), { status, headers: JsonHeaders })
JsonResponse(status, obj) ==
    [status |-> status, headers |-> JsonHeaders, body |-> <<obj>>]

FailedMessage == "Failed to send email, please try again later."

\* The response built in both catch blocks and in both `if (error)` blocks
FailureResponse(err) ==
    JsonResponse(500, [success |-> FALSE, message |-> FailedMessage,
                       error |-> JSONStringify(err)])

SuccessResponse ==
    JsonResponse(200, [success |-> TRUE, message |-> "Email sent successfully."])

Subject == "New Virgas Job Application"

(***************************************************************************)
(* The handler                                                             *)
(***************************************************************************)

Init ==
    /\ request \in Requests
    /\ env \in Envs
    /\ pc = "start"
    /\ bodyRead = FALSE
    /\ validated = FALSE
    /\ result = <<>>
    /\ fileBase64 = <<>>
    /\ sent = <<>>
    /\ providerResult = <<>>
    /\ logged = <<>>
    /\ response = <<>>
    /\ fault = <<>>

\* return new Response(...): the handler completes with a response
Return(r) ==
    /\ response' = <<r>>
    /\ pc' = "done"

\* catch (err) { console.error(...); return new Response(..., 500) }
Catch(err) ==
    /\ logged' = Append(logged, <<"Error processing request:", err>>)
    /\ Return(FailureResponse(err))

\* Preflight answering with the headers of the JSON responses
PreflightJsonHeaders ==
    /\ pc = "start"
    /\ request.method = "OPTIONS"
    /\ Return([status |-> 204, headers |-> JsonHeaders, body |-> <<>>])
    /\ UNCHANGED <<request, env, bodyRead, validated, result, fileBase64,
                   sent, providerResult, logged, fault>>

\* if (request.method === "OPTIONS") return new Response(null, 204, corsHeaders)
Preflight ==
    /\ pc = "start"
    /\ request.method = "OPTIONS"
    /\ Return([status |-> 204, headers |-> corsHeaders, body |-> <<>>])
    /\ UNCHANGED <<request, env, bodyRead, validated, result, fileBase64,
                   sent, providerResult, logged, fault>>

\* MethodNotAllowed answering without the CORS headers
MethodNotAllowedNoCors ==
    /\ pc = "start"
    /\ request.method # "OPTIONS"
    /\ request.method # "POST"
    /\ Return([status |-> 405, headers |-> ("Content-Type" :> "application/json"),
               body |-> <<[error |-> "Method not allowed"]>>])
    /\ UNCHANGED <<request, env, bodyRead, validated, result, fileBase64,
                   sent, providerResult, logged, fault>>

\* if (request.method !== "POST") return 405
MethodNotAllowed ==
    /\ pc = "start"
    /\ request.method # "OPTIONS"
    /\ request.method # "POST"
    /\ Return(JsonResponse(405, [error |-> "Method not allowed"]))
    /\ UNCHANGED <<request, env, bodyRead, validated, result, fileBase64,
                   sent, providerResult, logged, fault>>

\* new Resend(key): the constructor throws when it is given no key
ResendConstructorThrows(key) == key = NoKey

\* const resend = new Resend(env.RESEND_API_KEY); const url = new URL(request.url);
\* if (url.pathname === '/riders') ...    None of this is inside a try block:
\* an exception of the constructor leaves the handler.
CreateClient ==
    /\ pc = "start"
    /\ request.method = "POST"
    /\ IF ResendConstructorThrows(env.RESEND_API_KEY)
       THEN /\ fault' = <<PlainError("Error", "Missing API key")>>
            /\ pc' = "done"
       ELSE /\ fault' = fault
            /\ pc' = IF request.pathname = "/riders" THEN "riders" ELSE "job"
    /\ UNCHANGED <<request, env, bodyRead, validated, result, fileBase64,
                   sent, providerResult, logged, response>>

\* await request.json()
RequestJson(body) ==
    IF body.kind = "json" THEN [ok |-> TRUE, value |-> body.json, error |-> NoError]
    ELSE [ok |-> FALSE, value |-> [t |-> "null", v |-> <<>>],
          error |-> PlainError("SyntaxError",
                       IF body.kind = "none" THEN "Unexpected end of JSON input"
                       ELSE "Unexpected token in JSON")]

\* An object is truthy: the `if (!result)` test of the /riders branch
Truthy(obj) == TRUE

\* /riders: const Data = await request.json(); const result = RiderFormSchema.parse(Data);
\* if (!result) return 400;   with the catch block of the /riders branch
RiderParse ==
    /\ pc = "riders"
    /\ bodyRead' = TRUE
    /\ LET j == RequestJson(request.body)
           p == RiderSchemaParse(j.value)
       IN  IF ~j.ok
           THEN /\ Catch(j.error)
                /\ UNCHANGED <<validated, result>>
           ELSE IF ~p.success
           THEN /\ Catch(ZodError(p.issues))
                /\ UNCHANGED <<validated, result>>
           ELSE IF ~Truthy(p.data)
           THEN /\ Return(JsonResponse(400, [success |-> FALSE]))
                /\ UNCHANGED <<validated, result, logged>>
           ELSE /\ validated' = TRUE
                /\ result' = <<p.data>>
                /\ pc' = "riderSend"
                /\ UNCHANGED <<response, logged>>
    /\ UNCHANGED <<request, env, fileBase64, sent, providerResult, fault>>

\* The `from` of both send calls: `Virgas Hiring ${env.RESEND_EMAIL}`
From(e) == <<"Virgas Hiring ", e.RESEND_EMAIL>>

\* The argument of resend.emails.send in the /riders branch (no attachments)
RiderEmail(e, data) ==
    [from |-> From(e), to |-> e.VIRGAS_EMAIL, subject |-> Subject,
     html |-> createRiderTemplate(data), attachments |-> <<>>]

\* AfterSend without the `if (error)` test: every resolved call is a success
AfterSendIgnoringError(outcome) ==
    IF outcome.kind = "throw"
    THEN Catch(outcome.error)
    ELSE /\ Return(SuccessResponse)
         /\ UNCHANGED logged

\* The part of both branches after the send call: if (error) 500 else 200,
\* or the catch block when the call throws
AfterSend(outcome) ==
    IF outcome.kind = "throw"
    THEN Catch(outcome.error)
    ELSE IF outcome.kind = "error"
    THEN /\ logged' = Append(logged, <<"Error sending email:", outcome.error>>)
         /\ Return(FailureResponse(outcome.error))
    ELSE /\ Return(SuccessResponse)
         /\ UNCHANGED logged

\* /riders: const { error } = await resend.emails.send({...}); responses 500 / 200
RiderSend ==
    /\ pc = "riderSend"
    /\ \E outcome \in ProviderOutcomes :
        /\ sent' = Append(sent, RiderEmail(env, result[1]))
        /\ providerResult' = <<outcome>>
        /\ AfterSend(outcome)
    /\ UNCHANGED <<request, env, bodyRead, validated, result, fileBase64, fault>>

\* await request.formData()
RequestFormData(body) ==
    IF body.kind = "form" THEN [ok |-> TRUE, value |-> body.form, error |-> NoError]
    ELSE [ok |-> FALSE, value |-> <<>>,
          error |-> PlainError("TypeError",
                       IF body.kind = "none" THEN "Unrecognized Content-Type header value"
                       ELSE "Parsing a Body as FormData requires a Content-Type header")]

\* const formData = await request.formData(); const result = formSchema.safeParse(formData);
\* if (!result.success) return 400 with result.error.flatten()
JobParse ==
    /\ pc = "job"
    /\ bodyRead' = TRUE
    /\ LET f == RequestFormData(request.body)
       IN  IF ~f.ok
           THEN /\ Catch(f.error)
                /\ UNCHANGED <<validated, result>>
           ELSE LET p == FormSchemaSafeParse(f.value)
                IN  IF ~p.success
                    THEN /\ Return(JsonResponse(400, [success |-> FALSE,
                                                      errors |-> p.errors]))
                         /\ UNCHANGED <<validated, result, logged>>
                    ELSE /\ validated' = TRUE
                         /\ result' = <<p.data>>
                         /\ pc' = "jobRead"
                         /\ UNCHANGED <<response, logged>>
    /\ UNCHANGED <<request, env, fileBase64, sent, providerResult, fault>>

\* const fileBuffer = await cv.arrayBuffer();
\* const fileBase64 = Buffer.from(fileBuffer).toString("base64");
JobReadFile ==
    /\ pc = "jobRead"
    /\ fileBase64' = <<ToBase64(ArrayBuffer(result[1].cv))>>
    /\ pc' = "jobSend"
    /\ UNCHANGED <<request, env, bodyRead, validated, result, sent,
                   providerResult, logged, response, fault>>

\* The argument of resend.emails.send in the job-application branch
JobEmail(e, data, content) ==
    [from |-> From(e), to |-> e.VIRGAS_EMAIL, subject |-> Subject,
     html |-> createEmailTemplate(data),
     attachments |-> <<[filename |-> data.cv.name, content |-> content]>>]

\* const { error } = await resend.emails.send({..., attachments}); responses 500 / 200
JobSend ==
    /\ pc = "jobSend"
    /\ \E outcome \in ProviderOutcomes :
        /\ sent' = Append(sent, JobEmail(env, result[1], fileBase64[1]))
        /\ providerResult' = <<outcome>>
        /\ AfterSend(outcome)
    /\ UNCHANGED <<request, env, bodyRead, validated, result, fileBase64, fault>>

Next ==
    \/ Preflight
    \/ MethodNotAllowed
    \/ CreateClient
    \/ RiderParse
    \/ RiderSend
    \/ JobParse
    \/ JobReadFile
    \/ JobSend

Spec == Init /\ [][Next]_vars

TypeOK ==
    /\ pc \in {"start", "riders", "riderSend", "job", "jobRead", "jobSend", "done"}
    /\ bodyRead \in BOOLEAN
    /\ validated \in BOOLEAN
    /\ Len(response) <= 1
    /\ Len(fault) <= 1

(***************************************************************************)
(* Vocabulary of the properties                                            *)
(***************************************************************************)

Done == pc = "done"

Responded == Len(response) = 1

Status == response[1].status

ResponseBody == response[1].body[1]

IsRiderPost == request.method = "POST" /\ request.pathname = "/riders"

IsJobPost == request.method = "POST" /\ request.pathname # "/riders"

AllowedStatuses == {200, 204, 400, 405, 500}

\* The JSON body is an object that fails the Rider schema as the schema is
\* documented: phone missing, or gender, DOB, fname or lname missing or
\* shorter than 2 characters.
RiderBodyInvalid ==
    /\ request.body.kind = "json"
    /\ request.body.json.t = "object"
    /\ LET o == request.body.json.v
       IN  \/ ~IsString(o.phone)
           \/ \E f \in {"gender", "DOB", "fname", "lname"} :
                  ~IsString(o[f]) \/ Len(o[f].v) < 2

\* The JSON body is an object that satisfies the Rider schema.
RiderBodyValid ==
    /\ request.body.kind = "json"
    /\ request.body.json.t = "object"
    /\ LET o == request.body.json.v
       IN  /\ IsString(o.phone)
           /\ IsString(o.DOB) /\ Len(o.DOB.v) >= 2
           /\ \A f \in {"gender", "fname", "lname"} :
                  IsString(o[f]) /\ Len(Trim(o[f].v)) >= 2

IsForm == request.body.kind = "form"

\* The text fields of the form that are missing or empty
MissingTextFields ==
    {f \in TextFields :
        ~IsString(request.body.form[f]) \/ request.body.form[f].v = <<>>}

\* A PDF of at most 2 MiB is attached
CvIsSmallPdf ==
    LET cv == request.body.form.cv
    IN  cv.t = "file" /\ cv.type = PDF /\ FileSize(cv) <= MAX_CV_SIZE

\* The body of a 400 response names field f in its field-level error map
ErrorsName(f) ==
    /\ Responded
    /\ Status = 400
    /\ ResponseBody.success = FALSE
    /\ f \in DOMAIN ResponseBody.errors.fieldErrors

RECURSIVE Base64Decode(_)
\* The inverse of base64 on character values 0..63 and the padding character
Base64Decode(chars) ==
    IF Len(chars) < 4 THEN <<>>
    ELSE IF chars[3] = B64Pad
    THEN <<chars[1] * 4 + chars[2] \div 16>>
    ELSE IF chars[4] = B64Pad
    THEN <<chars[1] * 4 + chars[2] \div 16,
           (chars[2] % 16) * 16 + chars[3] \div 4>>
    ELSE <<chars[1] * 4 + chars[2] \div 16,
           (chars[2] % 16) * 16 + chars[3] \div 4,
           (chars[3] % 4) * 64 + chars[4]>>
         \o Base64Decode(SubSeq(chars, 5, Len(chars)))

\* Decoding of an attachment: each group "AAAA" is three 0x00 bytes
FromBase64(content) ==
    [zeroBlocks |-> content.zeroQuads, head |-> Base64Decode(content.tail)]

\* Every send call made so far carries exactly one attachment, which decodes
\* to the bytes of the uploaded file
AttachmentsFaithful ==
    \A i \in 1..Len(sent) :
        /\ Len(sent[i].attachments) = 1
        /\ FromBase64(sent[i].attachments[1].content)
               = ArrayBuffer(request.body.form.cv)

ProviderOk == providerResult # <<>> /\ providerResult[1].kind = "ok"

ProviderReportedError == providerResult # <<>> /\ providerResult[1].kind = "error"

\* The catch block of one of the two branches produced the response
CaughtException ==
    /\ logged # <<>>
    /\ logged[Len(logged)][1] = "Error processing request:"

(***************************************************************************)
(* Properties                                                              *)
(***************************************************************************)

\* C1: a POST to /riders whose JSON body fails the Rider schema is answered
\* with status 400 and body {success:false}, and no email is sent.
C1_InvalidRiderIs400 ==
    (Done /\ IsRiderPost /\ RiderBodyInvalid)
        => /\ response = <<JsonResponse(400, [success |-> FALSE])>>
           /\ sent = <<>>

\* C2: a POST to a path other than /riders with four non-empty text fields
\* and a PDF of at most 2 MiB is answered with status 200 after exactly one
\* send call, whose single attachment decodes to the bytes of the file.
C2_ValidJobIs200 ==
    (Done /\ IsJobPost /\ IsForm /\ MissingTextFields = {} /\ CvIsSmallPdf)
        => /\ Responded
           /\ Status = 200
           /\ Len(sent) = 1
           /\ AttachmentsFaithful

\* C2 as amended: for such a request at most one send call is made, every
\* send call carries exactly one attachment that decodes to the bytes of the
\* file, and once the provider has reported no error the handler answers
\* with the success response after exactly one send call.
C2_ValidJobSendsFile ==
    (IsJobPost /\ IsForm /\ MissingTextFields = {} /\ CvIsSmallPdf)
        => /\ Len(sent) <= 1
           /\ AttachmentsFaithful
           /\ (Done /\ ProviderOk)
                  => (response = <<SuccessResponse>> /\ Len(sent) = 1)

C2_Witness ==
    /\ Done /\ IsJobPost /\ IsForm /\ MissingTextFields = {} /\ CvIsSmallPdf
    /\ FileSize(request.body.form.cv) = MAX_CV_SIZE
    /\ ProviderOk
    /\ Responded /\ Status = 200
    /\ Len(sent) = 1

\* C3: a POST to a path other than /riders with a missing or empty text
\* field is answered with status 400 and a body {success:false, errors}
\* whose field-level error map names every such field; no email is sent.
C3_MissingTextIs400 ==
    (Done /\ IsJobPost /\ IsForm /\ MissingTextFields # {})
        => /\ \A f \in MissingTextFields : ErrorsName(f)
           /\ sent = <<>>

\* C4: with valid text fields, a job application whose cv is omitted, larger
\* than 2 MiB or not a PDF is answered with status 400 and an error detail
\* naming cv; a PDF of exactly 2 MiB is not rejected by validation.
C4_BadCvIs400 ==
    (Done /\ IsJobPost /\ IsForm /\ MissingTextFields = {})
        => LET cv == request.body.form.cv
           IN  /\ (cv.t # "file" \/ FileSize(cv) >= MAX_CV_SIZE + 1 \/ cv.type # PDF)
                      => ErrorsName("cv")
               /\ (cv.t = "file" /\ cv.type = PDF /\ FileSize(cv) = MAX_CV_SIZE)
                      => (Responded /\ Status # 400 /\ validated)

\* C5: when an exception is caught on either path, the response has status
\* 500 and the same generic body whatever the exception was.
C5_CaughtIsGeneric ==
    (Done /\ CaughtException)
        => response = <<JsonResponse(500, [success |-> FALSE,
                                           message |-> FailedMessage,
                                           error |-> <<>>])>>

\* C6: every request completes with a response whose status is one of 200,
\* 204, 400, 405, 500; no exception leaves the handler.
C6_AlwaysAResponse ==
    Done => /\ Responded
            /\ Status \in AllowedStatuses
            /\ fault = <<>>

\* C7: an OPTIONS request to any path is answered with status 204, an empty
\* body and the CORS headers, without reading the body or sending an email.
C7_OptionsIs204 ==
    (request.method = "OPTIONS")
        => /\ pc \in {"start", "done"}
           /\ ~bodyRead /\ ~validated /\ sent = <<>> /\ fault = <<>>
           /\ Done => response = <<[status |-> 204, headers |-> corsHeaders,
                                    body |-> <<>>]>>

C7_Witness ==
    /\ Done /\ request.method = "OPTIONS" /\ request.pathname = "/riders"
    /\ Responded /\ Status = 204

\* C8: a request whose method is neither OPTIONS nor POST is answered, on
\* any path, with status 405 and body {error:"Method not allowed"}; nothing
\* is validated and no email is sent.
C8_OtherMethodIs405 ==
    (request.method \notin {"OPTIONS", "POST"})
        => /\ pc \in {"start", "done"}
           /\ ~bodyRead /\ ~validated /\ sent = <<>> /\ fault = <<>>
           /\ Done => response = <<JsonResponse(405, [error |-> "Method not allowed"])>>

C8_Witness ==
    /\ Done /\ request.method = "DELETE" /\ request.pathname = "/riders"
    /\ Responded /\ Status = 405

\* The submitted value of every required rider field occurs in the HTML of
\* every send call
HtmlHasSubmitted ==
    \A i \in 1..Len(sent) :
        \A f \in {"fname", "lname", "phone", "gender", "DOB"} :
            Contains(sent[i].html, request.body.json.v[f].v)

\* The same after the whitespace trimming of the schema: fname, lname, phone
\* and gender are trimmed, DOB is not
HtmlHasTrimmed ==
    \A i \in 1..Len(sent) :
        /\ \A f \in {"fname", "lname", "phone", "gender"} :
               Contains(sent[i].html, Trim(request.body.json.v[f].v))
        /\ Contains(sent[i].html, request.body.json.v.DOB.v)

\* C9: a POST to /riders with a body that satisfies the Rider schema makes
\* exactly one send call, with the fixed subject and an HTML body containing
\* the submitted fname, lname, phone, gender and DOB; when the provider
\* reports no error the response is 200 {success:true, message}.
C9_ValidRiderSendsSubmitted ==
    (Done /\ IsRiderPost /\ RiderBodyValid)
        => /\ Len(sent) = 1
           /\ sent[1].subject = "New Virgas Job Application"
           /\ HtmlHasSubmitted
           /\ ProviderOk => response = <<SuccessResponse>>

\* C9 as amended: for such a request at most one send call is made, and
\* exactly one whenever the handler returns a response; every send call has
\* the fixed subject and an HTML body containing the trimmed fname, lname,
\* phone and gender and the DOB as submitted; when the provider reports no
\* error the response is 200 {success:true, message}.
C9_ValidRiderSendsTrimmed ==
    (IsRiderPost /\ RiderBodyValid)
        => /\ Len(sent) <= 1
           /\ (Done /\ Responded) => Len(sent) = 1
           /\ \A i \in 1..Len(sent) : sent[i].subject = "New Virgas Job Application"
           /\ HtmlHasTrimmed
           /\ (Done /\ ProviderOk) => response = <<SuccessResponse>>

C9_Witness ==
    /\ Done /\ IsRiderPost /\ RiderBodyValid
    /\ request.body.json.v.fname = Str(<<"J", "o", " ">>)
    /\ request.body.json.v.email = Undefined
    /\ ProviderOk
    /\ Len(sent) = 1
    /\ response = <<SuccessResponse>>

\* The payload of the request passes the schema of its path
PayloadPassesSchema ==
    IF request.pathname = "/riders"
    THEN request.body.kind = "json" /\ RiderSchemaParse(request.body.json).success
    ELSE IsForm /\ FormSchemaSafeParse(request.body.form).success

\* C10: within a request at most one send call is made, and only after the
\* payload has passed validation; status 200 is returned only after a send
\* call for which the provider reported no error; a provider-reported error
\* always gives status 500 with the message and the serialised error.
C10_SendOnceAfterValidation ==
    /\ Len(sent) <= 1
    /\ sent # <<>> => (validated /\ PayloadPassesSchema)
    /\ (Responded /\ Status = 200) => (Len(sent) = 1 /\ ProviderOk)
    /\ (Done /\ ProviderReportedError)
           => /\ Responded
              /\ Status = 500
              /\ ResponseBody.message = FailedMessage
              /\ ResponseBody.error = JSONStringify(providerResult[1].error)
              /\ ResponseBody.error # <<>>

C10_Witness ==
    /\ Done /\ ProviderReportedError
    /\ Len(sent) = 1
    /\ Responded /\ Status = 500

====
